---- MODULE Spec2Model ----
(***************************************************************************)
(* Model of pull_papers.py: ArxivCitationDownloader.run() and the three    *)
(* stages it calls in sequence: the catalog fetch from the arXiv API       *)
(* (get_arxiv_cs_ai_papers), the citation enrichment from Semantic Scholar *)
(* (get_semantic_scholar_citations), and the rank / save_metadata /        *)
(* download_paper_pdf tail of run().  One action is one loop iteration of  *)
(* the code, that is one network request together with everything the code *)
(* does with its outcome.  The upstream services are the environment: the  *)
(* outcome of a request is chosen with \E from what the service can send.  *)
(* Strings the code takes apart are sequences of one-character strings     *)
(* (tokens for the fixed parts of a URL).                                  *)
(***************************************************************************)
EXTENDS Integers, Sequences, FiniteSets, TLC

\* ------------------------------------------------------------------ bounds
\* Length in days of the overall window [start_date, end_date).  The code has
\* 2024-01-01 .. 2025-07-01 (547 days, 79 slices); the model keeps the slice
\* width and shortens the window.
EndDay == 14
\* Largest max_results (target record count) and max_papers (top-K) drawn in Init.
MaxTarget == 2
MaxTopK == 2
\* Largest citationCount and Retry-After (seconds) the citation API sends.
MaxCit == 1
MaxRetryAfter == 1
\* Number of times the script is run against the same output directory.
MaxRuns == 2
\* Longest enriched list drawn as input of the ranking step.
MaxList == 3
\* Longest candidate list drawn as the answer to one title search.
MaxCandidates == 2
\* Consecutive HTTP 429 answers the upstream gives before it must answer
\* something else (caps the otherwise unbounded retry loop of the enricher).
Max429 == 2

\* ------------------------------------------------------- program constants
StartDay == 0
\* timedelta(days=7)
SliceDays == 7
\* batch_size = 400 in the code; scaled down so that full and short pages
\* both occur with a corpus of a few papers.
BatchSize == 2
\* self.request_delay = 4.0 seconds, time.sleep(0.5), in milliseconds
RequestDelayMs == 4000
DownloadDelayMs == 500
\* clean_title[:50]
TitleCut == 50
\* headers.get("Retry-After", "1"): the seconds slept when the header is missing
DefaultRetryAfter == 1

NoField == "<none>"

\* ------------------------------------------------------ sequence helpers
Min(a, b) == IF a < b THEN a ELSE b

Last(s) == s[Len(s)]

Reverse(s) == [i \in 1..Len(s) |-> s[Len(s) + 1 - i]]

\* s[:n] of Python
Take(s, n) == SubSeq(s, 1, Min(n, Len(s)))

\* needle in hay, for sequences of tokens
Contains(hay, needle) ==
    \E i \in 0..(Len(hay) - Len(needle)) :
        SubSeq(hay, i + 1, i + Len(needle)) = needle

\* text.split('/')[-1]: what follows the last "/" (the whole text if none)
RECURSIVE LastSegment(_)
LastSegment(text) ==
    IF text = <<>> THEN <<>>
    ELSE IF Last(text) = "/" THEN <<>>
    ELSE Append(LastSegment(SubSeq(text, 1, Len(text) - 1)), Last(text))

Whitespace == {" "}

RECURSIVE LStrip(_)
LStrip(s) == IF s # <<>> /\ Head(s) \in Whitespace THEN LStrip(Tail(s)) ELSE s

RECURSIVE RStrip(_)
RStrip(s) ==
    IF s # <<>> /\ Last(s) \in Whitespace THEN RStrip(SubSeq(s, 1, Len(s) - 1)) ELSE s

\* str.strip()
Strip(s) == RStrip(LStrip(s))

\* ------------------------------------------------------- the arXiv service
AbsUrl(arxiv_id) == <<"http:", "/", "/", "arxiv.org", "/", "abs", "/">> \o arxiv_id
ErrorUrl == <<"http:", "/", "/", "arxiv.org", "/", "api", "/", "errors", "#", "e">>
\* the literal 'arxiv.org/api/errors'
ErrorsPattern == <<"arxiv.org", "/", "api", "/", "errors">>

\* The cs.AI papers the catalog holds, as Atom entries, in the order the API
\* lists them.  published holds the submission day (the code keeps text[:10]);
\* it is <<>> for an entry without a <published> element.
Corpus ==
    << [id |-> AbsUrl(<<"1", "v", "1">>), title |-> <<"A", ":", "b">>,
        authors |-> <<"ann">>, published |-> <<7>>],
       [id |-> AbsUrl(<<"2", "v", "4">>), title |-> <<" ", "C", "-", "d">>,
        authors |-> <<"bob", "cy">>, published |-> <<9>>],
       [id |-> AbsUrl(<<"3", "v", "1", "2">>), title |-> <<"E", "?", " ">>,
        authors |-> <<"dee">>, published |-> <<10>>] >>

\* An error entry of the API: its id names arxiv.org/api/errors.
ErrorEntry(pub) ==
    [id |-> ErrorUrl, title |-> <<"E", "r", "r">>, authors |-> <<"arXiv">>,
     published |-> pub]

\* submittedDate:[{start_str}0000 TO {end_str}2359]: both days inclusive
Matching(start_day, end_day) ==
    SelectSeq(Corpus, LAMBDA e : start_day <= e.published[1] /\ e.published[1] <= end_day)

\* The page the query (slice, start, max_results = batch_size) selects.
NaturalPage(start_day, end_day, start) ==
    LET m == Matching(start_day, end_day)
    IN  IF start >= Len(m) THEN <<>>
        ELSE SubSeq(m, start + 1, Min(start + BatchSize, Len(m)))

\* What one catalog request can come back with: a failure (connection error,
\* HTTP error status, unparsable XML), or a feed with at most batch_size
\* entries: the selected page or, the API being unreliable, a shorter prefix
\* of it, possibly followed by an error entry.
CatalogResponses(start_day, end_day, start) ==
    LET page == NaturalPage(start_day, end_day, start)
        prefixes == {SubSeq(page, 1, k) : k \in 0..Len(page)}
        witherr == {Append(p, ErrorEntry(pub)) :
                      p \in {q \in prefixes : Len(q) < BatchSize},
                      pub \in {<<>>, <<start_day>>}}
    IN  {[status |-> "error", entries |-> <<>>]}
        \cup {[status |-> "ok", entries |-> es] : es \in prefixes \cup witherr}

\* ------------------------------------------------------------------ state
VARIABLES
    pc,                     \* position of run(): the loop or step it is at
    run_no,                 \* which run of the script this is (1..MaxRuns)
    max_results,            \* get_arxiv_cs_ai_papers(max_results)
    max_papers,             \* self.max_papers
    current_start,          \* first day of the current time slice
    slice_end,              \* last day of the current time slice
    start_index,            \* page offset within the slice
    is_lastbatchinquery,
    papers,                 \* the catalog list (arxiv_papers in run())
    catalog_log,            \* history: one entry per catalog request of this run
    paper_idx,              \* index in papers of the record being enriched
    retries,                \* consecutive 429 answers for the current record
    papers_with_citations,
    cite_log,               \* history: the last citation request and its outcome
    top_papers,
    metadata,               \* the metadata file in download_dir
    files,                  \* the PDF files in download_dir
    dl_idx,                 \* index in top_papers of the next download
    successful_downloads,
    download_log            \* history: one entry per download_paper_pdf call of this run

fetch_vars == <<current_start, slice_end, start_index, is_lastbatchinquery, papers,
                catalog_log>>
enrich_vars == <<paper_idx, retries, papers_with_citations, cite_log>>
tail_vars == <<top_papers, metadata, files, dl_idx, successful_downloads, download_log>>
param_vars == <<run_no, max_results, max_papers>>
vars == <<pc, param_vars, fetch_vars, enrich_vars, tail_vars>>

NoCite == [idx |-> 0, status |-> "none", n429 |-> 0, retry_after |-> <<>>,
           slept |-> 0, data |-> <<>>, answer |-> 0]
NoFile == [exists |-> FALSE, content |-> <<>>]

\* State at the start of run(): nothing fetched yet.
RunStart ==
    /\ pc = "slice_loop"
    /\ current_start = StartDay
    /\ slice_end = StartDay
    /\ start_index = 0
    /\ is_lastbatchinquery = FALSE
    /\ papers = <<>>
    /\ catalog_log = <<>>
    /\ paper_idx = 1
    /\ retries = 0
    /\ papers_with_citations = <<>>
    /\ cite_log = NoCite
    /\ top_papers = <<>>
    /\ dl_idx = 1
    /\ successful_downloads = 0
    /\ download_log = <<>>

Init ==
    /\ RunStart
    /\ run_no = 1
    /\ max_results \in 1..MaxTarget
    /\ max_papers \in 0..MaxTopK
    /\ metadata = NoFile
    /\ files = {}

\* ------------------------------------------------- stage 1: catalog fetch
IsErrorEntry(entry) == Contains(entry.id, ErrorsPattern)

\* paper_entries: the entries that are not API error entries
PaperEntries(entries) == SelectSeq(entries, LAMBDA e : ~IsErrorEntry(e))

\* the dict appended for one entry
PaperRecord(entry) ==
    [arxiv_id |-> LastSegment(entry.id),
     title |-> Strip(entry.title),
     authors |-> entry.authors,
     published |-> entry.published[1],
     citations |-> 0,
     semantic_scholar_id |-> NoField]

\* The loop "for entry in entries": the records appended, and whether an
\* element lookup failed on the way (find(...) is None, so .text raises),
\* which leaves the records appended before it in the list.
RECURSIVE ProcessEntries(_)
ProcessEntries(entries) ==
    IF entries = <<>> THEN [appended |-> <<>>, raised |-> FALSE]
    ELSE IF Head(entries).published = <<>> THEN [appended |-> <<>>, raised |-> TRUE]
    ELSE LET rest == ProcessEntries(Tail(entries))
         IN  [appended |-> <<PaperRecord(Head(entries))>> \o rest.appended,
              raised |-> rest.raised]

\* Variant: the offset is not advanced.
NextStartIndexStuck(start, entries) == start

\* start_index += len(entries)
NextStartIndex(start, entries) == start + Len(entries)

\* Variant: the target count is not looked at.
FetchGoesOnNoTarget(start_day, n_papers, target) == start_day < EndDay

\* "while current_start < end_date" and the break on "len(papers) >= max_results"
FetchGoesOn(start_day, n_papers, target) == start_day < EndDay /\ n_papers < target

\* Variant: the halt is absorbed by the handler like any other exception.
AfterEmptyPageCaught == "caught"

\* Where exit() inside the try block leaves the run: SystemExit is not an
\* Exception, so "except Exception" does not catch it and the process ends.
AfterEmptyPage == "exited"

\* Variant: no page is taken for the last of its slice.
IsLastBatchNever(n) == FALSE

\* "if len(paper_entries) < batch_size and len(paper_entries) > 0":
\* is_lastbatchinquery = True
IsLastBatch(n) == n < BatchSize /\ n > 0

\* Variant: a failed request halts the run like the empty page does.
AfterRequestErrorHalt == "exited"

\* Where "except Exception: ... break" leaves the fetch: out of the page
\* loop, at the end of the slice loop's body.
AfterRequestError == "slice_loop"

\* Outer loop head, a slice remains and more records are wanted.
SliceStart ==
    /\ pc = "slice_loop"
    /\ FetchGoesOn(current_start, Len(papers), max_results)
    /\ slice_end' = Min(current_start + SliceDays, EndDay)
    /\ start_index' = 0
    /\ is_lastbatchinquery' = FALSE
    /\ pc' = "page_loop"
    /\ UNCHANGED <<current_start, papers, catalog_log, param_vars, enrich_vars, tail_vars>>

\* Outer loop ends: get_arxiv_cs_ai_papers returns papers, run() writes the
\* spreadsheet (no state the later steps read) and starts the enrichment.
FetchReturn ==
    /\ pc = "slice_loop"
    /\ ~FetchGoesOn(current_start, Len(papers), max_results)
    /\ pc' = "enrich_loop"
    /\ UNCHANGED <<param_vars, fetch_vars, enrich_vars, tail_vars>>

LogCatalog(resp, n_appended, slept, outcome) ==
    Append(catalog_log,
           [slice |-> current_start, start |-> start_index, had |-> Len(papers),
            status |-> resp.status, returned |-> Len(resp.entries),
            paper_entries |-> Len(PaperEntries(resp.entries)),
            appended |-> n_appended, slept |-> slept, outcome |-> outcome])

\* One iteration of the inner loop: one page request and its handling.
FetchPage ==
    /\ pc = "page_loop"
    /\ \E resp \in CatalogResponses(current_start, slice_end, start_index) :
        LET n == Len(PaperEntries(resp.entries))
            done == ProcessEntries(resp.entries)
            last == IsLastBatch(n)
        IN  IF resp.status = "error" THEN
                \* except Exception: break; then current_start = slice_end
                /\ pc' = AfterRequestError
                /\ current_start' = slice_end
                /\ catalog_log' = LogCatalog(resp, 0, 0, "break")
                /\ UNCHANGED <<slice_end, start_index, is_lastbatchinquery, papers>>
            ELSE IF n = 0 THEN
                \* exit()
                IF AfterEmptyPage = "exited" THEN
                    /\ pc' = "exited"
                    /\ catalog_log' = LogCatalog(resp, 0, 0, "exit")
                    /\ UNCHANGED <<current_start, slice_end, start_index,
                                   is_lastbatchinquery, papers>>
                ELSE
                    /\ pc' = "slice_loop"
                    /\ current_start' = slice_end
                    /\ catalog_log' = LogCatalog(resp, 0, 0, "break")
                    /\ UNCHANGED <<slice_end, start_index, is_lastbatchinquery, papers>>
            ELSE IF done.raised THEN
                \* the entries before the failing one stay appended; break
                /\ pc' = "slice_loop"
                /\ current_start' = slice_end
                /\ papers' = papers \o done.appended
                /\ is_lastbatchinquery' = last
                /\ catalog_log' = LogCatalog(resp, Len(done.appended), 0, "break")
                /\ UNCHANGED <<slice_end, start_index>>
            ELSE
                /\ papers' = papers \o done.appended
                /\ is_lastbatchinquery' = last
                /\ start_index' = NextStartIndex(start_index, resp.entries)
                /\ catalog_log' = LogCatalog(resp, Len(done.appended), RequestDelayMs,
                                             IF last THEN "slice_done" ELSE "next_page")
                /\ IF last
                   THEN pc' = "slice_loop" /\ current_start' = slice_end
                   ELSE pc' = "page_loop" /\ UNCHANGED current_start
                /\ UNCHANGED slice_end
    /\ UNCHANGED <<param_vars, enrich_vars, tail_vars>>

\* ------------------------------------------- stage 2: citation enrichment
\* str.replace(pat, ''): every non-overlapping occurrence, left to right
RECURSIVE RemoveAll(_, _)
RemoveAll(s, pat) ==
    IF Len(s) < Len(pat) THEN s
    ELSE IF SubSeq(s, 1, Len(pat)) = pat
         THEN RemoveAll(SubSeq(s, Len(pat) + 1, Len(s)), pat)
         ELSE <<Head(s)>> \o RemoveAll(Tail(s), pat)

\* paper['arxiv_id'].replace('v1', '').replace('v2', '').replace('v3', '')
ArxivIdClean(arxiv_id) ==
    RemoveAll(RemoveAll(RemoveAll(arxiv_id, <<"v", "1">>), <<"v", "2">>), <<"v", "3">>)

\* The identifier without its version suffix, as Semantic Scholar reports it
\* in externalIds['ArXiv'] (what precedes the last "v").
VersionFree(arxiv_id) ==
    LET vs == {i \in 1..Len(arxiv_id) : arxiv_id[i] = "v"}
    IN  IF vs = {} THEN arxiv_id
        ELSE SubSeq(arxiv_id, 1, (CHOOSE i \in vs : \A j \in vs : j <= i) - 1)

\* One search result.  ArXiv is <<>> when externalIds has no 'ArXiv' key.
Candidate(ext, count) == [ArXiv |-> ext, citationCount |-> count, paperId |-> "sid"]

\* What the citation service lists for a title search, in its order: for the
\* first paper another paper and then the paper itself, for the second the
\* paper itself, for the third a result without arXiv id, and nothing for
\* any other title.
SearchResults(title) ==
    IF title = Strip(Corpus[1].title)
        THEN <<Candidate(<<"9">>, MaxCit), Candidate(<<"1">>, 0)>>
    ELSE IF title = Strip(Corpus[2].title)
        THEN <<Candidate(<<"2">>, MaxCit)>>
    ELSE IF title = Strip(Corpus[3].title)
        THEN <<Candidate(<<>>, MaxCit)>>
    ELSE <<>>

Digits == <<"0", "1", "2", "3", "4", "5", "6", "7", "8", "9">>
DigitOf(n) == Digits[n + 1]
DigitVal(ch) == CHOOSE n \in 0..9 : Digits[n + 1] = ch

\* int(text) for a text of decimal digits
RECURSIVE ParseInt(_)
ParseInt(text) ==
    IF text = <<>> THEN 0
    ELSE 10 * ParseInt(SubSeq(text, 1, Len(text) - 1)) + DigitVal(Last(text))

\* What one citation request can come back with: the search results, a 429,
\* another HTTP error status, or another exception (connection error, a body
\* that is not JSON).  The Retry-After header of a 429 is absent (<<>>) or a number of seconds in decimal digits.  At most
\* Max429 consecutive 429 answers are given for one record.
CitationResponses(paper, n429) ==
    {[status |-> "ok", data |-> SearchResults(paper.title), retry_after |-> <<>>]}
        \cup {[status |-> "http_error", data |-> <<>>, retry_after |-> <<>>],
              [status |-> "exception", data |-> <<>>, retry_after |-> <<>>]}
        \cup (IF n429 < Max429
              THEN {[status |-> "429", data |-> <<>>, retry_after |-> h] :
                       h \in {<<>>} \cup {<<DigitOf(n)>> : n \in 0..MaxRetryAfter}}
              ELSE {})

\* The loop over search_results['data'] and the fallback to data[0];
\* <<>> stands for best_match = None, <<c>> for best_match = c.
BestMatch(paper, data) ==
    LET clean == ArxivIdClean(paper.arxiv_id)
        hits == {i \in 1..Len(data) : data[i].ArXiv # <<>> /\ data[i].ArXiv = clean}
    IN  IF hits # {} THEN <<data[CHOOSE i \in hits : \A j \in hits : i <= j]>>
        ELSE IF data # <<>> THEN <<data[1]>>
        ELSE <<>>

\* Variant: the record also takes over the id the matched candidate reports.
EnrichedWithCandidateId(paper, data) ==
    LET best == BestMatch(paper, data)
    IN  IF best # <<>>
        THEN [paper EXCEPT !.arxiv_id = best[1].ArXiv,
                           !.citations = best[1].citationCount,
                           !.semantic_scholar_id = best[1].paperId]
        ELSE [paper EXCEPT !.citations = 0]

\* The record after a successful answer: paper['citations'] and
\* paper['semantic_scholar_id'] are assigned, nothing else.
Enriched(paper, data) ==
    LET best == BestMatch(paper, data)
    IN  IF best # <<>>
        THEN [paper EXCEPT !.citations = best[1].citationCount,
                           !.semantic_scholar_id = best[1].paperId]
        ELSE [paper EXCEPT !.citations = 0]

\* int(response.headers.get("Retry-After", "1")), in milliseconds
RetryAfterMs(header) ==
    1000 * (IF header = <<>> THEN DefaultRetryAfter ELSE ParseInt(header))

\* Variant: a 429 ends the retry loop like the other failures.
NextAfter429GiveUp(idx) == idx + 1

\* 429: the "while True" loop goes round again with the same paper.
NextAfter429(idx) == idx

\* Variant: every failure is retried.
NextAfterFailureRetry(idx) == idx

\* Any other failure: break out of the retry loop, on to the next paper.
NextAfterFailure(idx) == idx + 1

\* One iteration of the retry loop: one citation request and its handling,
\* the service answering with one of responses.
EnrichOn(responses) ==
    /\ pc = "enrich_loop"
    /\ paper_idx <= Len(papers)
    /\ \E resp \in responses :
        LET paper == papers[paper_idx]
            best == BestMatch(paper, resp.data)
            \* history: the request, the sleep that followed it, the search
            \* results, and the citationCount of the candidate the answer
            \* was read from
            log(slept) == [idx |-> paper_idx, status |-> resp.status, n429 |-> retries,
                           retry_after |-> resp.retry_after, slept |-> slept,
                           data |-> resp.data,
                           answer |-> IF best = <<>> THEN 0 ELSE best[1].citationCount]
        IN  IF resp.status = "ok" THEN
                \* the dict is updated in place and appended
                /\ papers' = [papers EXCEPT ![paper_idx] = Enriched(paper, resp.data)]
                /\ papers_with_citations' =
                       Append(papers_with_citations, Enriched(paper, resp.data))
                /\ paper_idx' = paper_idx + 1
                /\ retries' = 0
                /\ cite_log' = log(0)
            ELSE IF resp.status = "429" THEN
                /\ paper_idx' = NextAfter429(paper_idx)
                /\ retries' = IF NextAfter429(paper_idx) = paper_idx THEN retries + 1 ELSE 0
                /\ cite_log' = log(RetryAfterMs(resp.retry_after))
                /\ UNCHANGED <<papers, papers_with_citations>>
            ELSE
                /\ paper_idx' = NextAfterFailure(paper_idx)
                /\ retries' = IF NextAfterFailure(paper_idx) = paper_idx
                              THEN retries ELSE 0
                \* nothing is appended for this paper
                /\ cite_log' = log(0)
                /\ UNCHANGED <<papers, papers_with_citations>>
    /\ pc' = "enrich_loop"
    /\ UNCHANGED <<param_vars, current_start, slice_end, start_index,
                   is_lastbatchinquery, catalog_log, tail_vars>>

\* The enricher against the citation service of CitationResponses.
Enrich == EnrichOn(CitationResponses(papers[paper_idx], retries))

\* The for loop is exhausted: get_semantic_scholar_citations returns.
EnrichReturn ==
    /\ pc = "enrich_loop"
    /\ paper_idx > Len(papers)
    /\ pc' = "rank"
    /\ UNCHANGED <<param_vars, fetch_vars, enrich_vars, tail_vars>>

\* ------------------------------------ stage 3: rank, metadata, downloads
\* list.sort on the key, ascending and stable: each element goes after the
\* elements already placed whose key is not greater.
RECURSIVE InsertByKey(_, _)
InsertByKey(sorted, x) ==
    IF sorted = <<>> THEN <<x>>
    ELSE IF Last(sorted).citations <= x.citations THEN Append(sorted, x)
    ELSE Append(InsertByKey(SubSeq(sorted, 1, Len(sorted) - 1), x), Last(sorted))

RECURSIVE SortAscending(_)
SortAscending(list) ==
    IF list = <<>> THEN <<>>
    ELSE InsertByKey(SortAscending(SubSeq(list, 1, Len(list) - 1)), Last(list))

\* Variant: ascending sort, then reversed (sorted(...)[::-1]).
SortedThenReversed(list) == Reverse(SortAscending(list))

\* sorted(list, key=lambda x: x['citations'], reverse=True): CPython reverses
\* the list, sorts it stably in ascending order and reverses the result, which
\* keeps equal keys in their original order.
SortedByCitations(list) == Reverse(SortAscending(Reverse(list)))

\* Variant: the ranked list is not cut.
TopPapersUncut(list, k) == SortedByCitations(list)

\* sorted(...)[:self.max_papers]
TopPapers(list, k) == Take(SortedByCitations(list), k)

\* the characters c of the titles with c.isalnum()
Alnum == {"A", "b", "C", "d", "E", "r"} \cup {Digits[i] : i \in 1..10}

\* "".join(c for c in title if c.isalnum() or c in (' ', '-', '_')).rstrip()
CleanTitle(title) ==
    RStrip(SelectSeq(title, LAMBDA c : c \in Alnum \/ c \in {" ", "-", "_"}))

\* f"{arxiv_id}_{clean_title[:50]}.pdf" in download_dir
FilePath(arxiv_id, title) ==
    arxiv_id \o <<"_">> \o Take(CleanTitle(title), TitleCut) \o <<".pdf">>

\* Variant: the check for an existing file is missing.
PathExistsNever(fs, path) == FALSE

\* os.path.exists(filepath)
PathExists(fs, path) == \E f \in fs : f.name = path

\* json.dump(papers, f): what save_metadata leaves in the file
MetadataFile(list) == [exists |-> TRUE, content |-> list]

\* Variant: the downloads start right after the ranking.
StepAfterRankDownloads == "download_loop"

\* The step of run() that follows the ranking (step 4, save_metadata, comes
\* before step 5, the downloads).
StepAfterRank == "save_metadata"

\* Step 3 of run().
Rank ==
    /\ pc = "rank"
    /\ top_papers' = TopPapers(papers_with_citations, max_papers)
    /\ pc' = StepAfterRank
    /\ dl_idx' = 1
    /\ successful_downloads' = 0
    /\ UNCHANGED <<param_vars, fetch_vars, enrich_vars, metadata, files, download_log>>

\* Step 4 of run(): save_metadata(top_papers).
SaveMetadata ==
    /\ pc = "save_metadata"
    /\ metadata' = MetadataFile(top_papers)
    /\ pc' = "download_loop"
    /\ UNCHANGED <<param_vars, fetch_vars, enrich_vars, top_papers, files, dl_idx,
                   successful_downloads, download_log>>

\* The run that wrote the file at path, 0 when there is no such file.
WrittenIn(fs, path) ==
    IF \E f \in fs : f.name = path THEN (CHOOSE f \in fs : f.name = path).written_in ELSE 0

\* open(filepath, 'wb') and f.write(response.content)
WriteFile(fs, path, run) ==
    {f \in fs : f.name # path} \cup {[name |-> path, written_in |-> run]}

\* Variant: a failed download ends the loop.
NextDownloadStopOnFailure(idx, n, ok) == IF ok THEN idx + 1 ELSE n + 1

\* "for paper in top_papers": the record after this one, whatever
\* download_paper_pdf returned (its handler turns every failure into None).
NextDownload(idx, n, ok) == idx + 1

\* Variant: the file is opened for writing before the request is made.
FilesAfterFailureOpened(fs, path, run) == WriteFile(fs, path, run)

\* The directory after a request that failed: open() comes after
\* raise_for_status(), so nothing was created.
FilesAfterFailure(fs, path, run) == fs

\* One iteration of the download loop: download_paper_pdf for one record, the
\* count of successes, and the sleep.  A request to the document host either
\* answers with the document or fails (network error, error status).
Download ==
    /\ pc = "download_loop"
    /\ dl_idx <= Len(top_papers)
    /\ LET paper == top_papers[dl_idx]
           filepath == FilePath(paper.arxiv_id, paper.title)
           \* history: the call, what was on disk before and after it, whether
           \* the document host was asked, and what was added to the count
           log(outcome, fs, counted) ==
               Append(download_log,
                      [arxiv_id |-> paper.arxiv_id, path |-> filepath,
                       existed |-> filepath \in {f.name : f \in files},
                       before |-> WrittenIn(files, filepath),
                       after |-> WrittenIn(fs, filepath),
                       requested |-> outcome # "skipped",
                       outcome |-> outcome, counted |-> counted,
                       slept |-> DownloadDelayMs, metadata |-> metadata])
       IN  IF PathExists(files, filepath) THEN
               \* already downloaded: return filepath
               /\ successful_downloads' = successful_downloads + 1
               /\ download_log' = log("skipped", files, 1)
               /\ dl_idx' = NextDownload(dl_idx, Len(top_papers), TRUE)
               /\ UNCHANGED files
           ELSE \E ok \in BOOLEAN :
               IF ok THEN
                   /\ files' = WriteFile(files, filepath, run_no)
                   /\ successful_downloads' = successful_downloads + 1
                   /\ download_log' = log("downloaded", WriteFile(files, filepath, run_no), 1)
                   /\ dl_idx' = NextDownload(dl_idx, Len(top_papers), TRUE)
               ELSE
                   \* except Exception: return None
                   /\ files' = FilesAfterFailure(files, filepath, run_no)
                   /\ download_log' =
                          log("failed", FilesAfterFailure(files, filepath, run_no), 0)
                   /\ dl_idx' = NextDownload(dl_idx, Len(top_papers), FALSE)
                   /\ UNCHANGED successful_downloads
    /\ pc' = "download_loop"
    /\ UNCHANGED <<param_vars, fetch_vars, enrich_vars, top_papers, metadata>>

\* The download loop is exhausted: run() reports the counts and returns.
RunReturn ==
    /\ pc = "download_loop"
    /\ dl_idx > Len(top_papers)
    /\ pc' = "done"
    /\ UNCHANGED <<param_vars, fetch_vars, enrich_vars, tail_vars>>

Next ==
    \/ SliceStart
    \/ FetchPage
    \/ FetchReturn
    \/ Enrich
    \/ EnrichReturn
    \/ Rank
    \/ SaveMetadata
    \/ Download
    \/ RunReturn

Spec == Init /\ [][Next]_vars

\* ------------------------------------------ runs against the same directory
\* The records the enricher can hand to the ranking step: catalog records
\* with a citation count.
EnrichedRecords ==
    {[PaperRecord(Corpus[i]) EXCEPT !.citations = c, !.semantic_scholar_id = "sid"] :
        i \in 1..Len(Corpus), c \in 0..MaxCit}

EnrichedLists ==
    UNION {[1..n -> EnrichedRecords] : n \in 0..MaxList}

\* run() at step 3, stages 1 and 2 having ended with an enriched list (the
\* history of their requests is not kept here), for each top-K.
InitRerun ==
    /\ pc = "rank"
    /\ run_no = 1
    /\ max_results = MaxTarget
    /\ max_papers \in 0..MaxTopK
    /\ papers_with_citations \in EnrichedLists
    /\ papers = papers_with_citations
    /\ current_start = EndDay
    /\ slice_end = EndDay
    /\ start_index = 0
    /\ is_lastbatchinquery = FALSE
    /\ catalog_log = <<>>
    /\ paper_idx = Len(papers_with_citations) + 1
    /\ retries = 0
    /\ cite_log = NoCite
    /\ top_papers = <<>>
    /\ metadata = NoFile
    /\ files = {}
    /\ dl_idx = 1
    /\ successful_downloads = 0
    /\ download_log = <<>>

\* The script is run again against the download_dir the previous run left.
\* Both services answer as before, so stages 1 and 2 end with the same list
\* and the new run is taken up at step 3.
Rerun ==
    /\ pc = "done"
    /\ run_no < MaxRuns
    /\ run_no' = run_no + 1
    /\ pc' = "rank"
    /\ top_papers' = <<>>
    /\ dl_idx' = 1
    /\ successful_downloads' = 0
    /\ download_log' = <<>>
    /\ UNCHANGED <<max_results, max_papers, fetch_vars, enrich_vars, metadata, files>>

NextRerun ==
    \/ Rank
    \/ SaveMetadata
    \/ Download
    \/ RunReturn
    \/ Rerun

SpecRerun == InitRerun /\ [][NextRerun]_vars

\* ------------------------------------------- the choice of the candidate
\* What a search result for the title of paper can have as
\* externalIds['ArXiv']: nothing, the id of the paper as the service lists
\* it (without version), or the id of another paper.
ExternalIds(paper) == {<<>>, VersionFree(paper.arxiv_id), <<"9">>}

CandidateLists(paper) ==
    UNION {[1..n -> {Candidate(ext, c) : ext \in ExternalIds(paper), c \in 0..MaxCit}] :
              n \in 0..MaxCandidates}

\* A citation service that answers a title search with any candidate list.
AnyCitationResponses(paper, n429) ==
    {[status |-> "ok", data |-> d, retry_after |-> <<>>] : d \in CandidateLists(paper)}

\* get_semantic_scholar_citations called with a list of one catalog record.
InitMatch ==
    /\ pc = "enrich_loop"
    /\ run_no = 1
    /\ max_results = MaxTarget
    /\ max_papers = MaxTopK
    /\ papers \in {<<PaperRecord(Corpus[k])>> : k \in 1..Len(Corpus)}
    /\ current_start = EndDay
    /\ slice_end = EndDay
    /\ start_index = 0
    /\ is_lastbatchinquery = FALSE
    /\ catalog_log = <<>>
    /\ paper_idx = 1
    /\ retries = 0
    /\ papers_with_citations = <<>>
    /\ cite_log = NoCite
    /\ top_papers = <<>>
    /\ metadata = NoFile
    /\ files = {}
    /\ dl_idx = 1
    /\ successful_downloads = 0
    /\ download_log = <<>>

\* The enricher against the service that answers with any candidate list.
EnrichAnyAnswer == EnrichOn(AnyCitationResponses(papers[paper_idx], retries))

NextMatch ==
    \/ EnrichAnyAnswer
    \/ EnrichReturn

SpecMatch == InitMatch /\ [][NextMatch]_vars

\* ----------------------------------------------------------- properties
PastFetch == pc \in {"enrich_loop", "rank", "save_metadata", "download_loop", "done"}
PastEnrich == pc \in {"rank", "save_metadata", "download_loop", "done"}
PastRank == pc \in {"save_metadata", "download_loop", "done"}

\* Number of positions of list holding record r
Occurrences(list, r) == Cardinality({i \in 1..Len(list) : list[i] = r})

\* C1: when get_semantic_scholar_citations has returned, its output has as
\* many records as its input and holds every input record exactly as often
\* as the input does.
C1_EnricherKeepsCount ==
    PastEnrich =>
        /\ Len(papers_with_citations) = Len(papers)
        /\ \A i \in 1..Len(papers) :
               Occurrences(papers_with_citations, papers[i]) = Occurrences(papers, papers[i])

\* C2: no two records of the catalog list have the same arxiv id.
C2_UniqueIds ==
    \A i, j \in 1..Len(papers) : i # j => papers[i].arxiv_id # papers[j].arxiv_id

\* C3: a page with zero paper entries is the last catalog request of the
\* run; the run is halted there, and nothing of the enrichment, the metadata
\* write or the downloads has happened.
C3_EmptyPageHalts ==
    \A i \in 1..Len(catalog_log) :
        (catalog_log[i].status = "ok" /\ catalog_log[i].paper_entries = 0) =>
            /\ i = Len(catalog_log)
            /\ pc = "exited"
            /\ cite_log = NoCite
            /\ papers_with_citations = <<>>
            /\ metadata = NoFile
            /\ download_log = <<>>
            /\ files = {}

\* C3 witness: the run was halted by an empty page after an earlier page had
\* delivered records.
C3_Witness ==
    /\ pc = "exited"
    /\ Len(catalog_log) >= 2
    /\ Last(catalog_log).paper_entries = 0
    /\ papers # <<>>

\* C4 as stated: no catalog request is issued once the accumulated count has
\* reached max_results (the page loop, where the next statement is a request,
\* is never entered or re-entered with the target reached).
C4_NoRequestAtTarget ==
    /\ pc = "page_loop" => Len(papers) < max_results
    /\ \A i \in 1..Len(catalog_log) : catalog_log[i].had < max_results

\* C4 amended: no time slice is started once the accumulated count has
\* reached max_results (the count is looked at between slices only), and
\* the fetch returns early only with at least max_results records.
C4_NoSliceAtTarget ==
    /\ \A i \in 1..Len(catalog_log) :
           catalog_log[i].start = 0 => catalog_log[i].had < max_results
    /\ (pc = "page_loop" /\ start_index = 0) => Len(papers) < max_results
    /\ (PastFetch /\ current_start < EndDay) => Len(papers) >= max_results

\* C4 witness: the fetch returned with the target reached and a slice of
\* the window left unrequested.
C4_Witness ==
    /\ PastFetch
    /\ current_start < EndDay
    /\ Len(papers) >= max_results
    /\ catalog_log # <<>>

\* C5: after a 429 the enricher is at the same record, having slept for the
\* Retry-After seconds of the answer (1 second when the header is absent),
\* and has neither appended nor passed the record; after a successful answer
\* the record is the last of the output, with the citation count of the answer.
C5_RetrySameRecord ==
    /\ cite_log.status = "429" =>
           /\ pc = "enrich_loop"
           /\ paper_idx = cite_log.idx
           /\ Len(papers_with_citations) < cite_log.idx
           /\ \/ cite_log.retry_after = <<>> /\ cite_log.slept = 1000
              \/ \E n \in 0..9 :
                     cite_log.retry_after = <<DigitOf(n)>> /\ cite_log.slept = 1000 * n
    /\ cite_log.status = "ok" =>
           /\ papers_with_citations # <<>>
           /\ Last(papers_with_citations) = papers[cite_log.idx]
           /\ Last(papers_with_citations).citations = cite_log.answer

\* C5 witness: a record answered with 429 and then with a success carrying
\* a positive citation count.
C5_Witness ==
    /\ cite_log.status = "ok"
    /\ cite_log.n429 > 0
    /\ cite_log.answer > 0

\* Position of input record i in the list ranked by citations, descending,
\* ties in input order.
RankPosition(list, i) ==
    1 + Cardinality({j \in 1..Len(list) : list[j].citations > list[i].citations})
      + Cardinality({j \in 1..(i - 1) : list[j].citations = list[i].citations})

\* C6: top_papers is the first max_papers records of the enriched list in
\* descending order of citations, records with equal citations in their
\* input order.
C6_RankStableDescending ==
    PastRank =>
        /\ Len(top_papers) = Min(max_papers, Len(papers_with_citations))
        /\ \A i \in 1..Len(papers_with_citations) :
               RankPosition(papers_with_citations, i) <= max_papers =>
                   top_papers[RankPosition(papers_with_citations, i)]
                       = papers_with_citations[i]

\* C6 witness: the example of the specification, [a(low), b(high), c(high)]
\* with K = 2 ranked as [b, c], b and c being different papers.
C6_Witness ==
    /\ PastRank
    /\ max_papers = 2
    /\ Len(papers_with_citations) = 3
    /\ papers_with_citations[1].citations < papers_with_citations[2].citations
    /\ papers_with_citations[2].citations = papers_with_citations[3].citations
    /\ papers_with_citations[2].arxiv_id # papers_with_citations[3].arxiv_id
    /\ top_papers = <<papers_with_citations[2], papers_with_citations[3]>>

\* C7: a call of download_paper_pdf that finds the derived file on disk
\* asks the document host for nothing, leaves the file as it was written,
\* and is counted as a success.
C7_DownloadIdempotent ==
    /\ \A i \in 1..Len(download_log) :
           download_log[i].existed =>
               /\ ~download_log[i].requested
               /\ download_log[i].after = download_log[i].before
               /\ download_log[i].counted = 1
    /\ successful_downloads
           = Cardinality({i \in 1..Len(download_log) : download_log[i].counted = 1})

\* C7 witness: in a second run a record is skipped whose file the first run
\* wrote, and the file is still the one the first run wrote.
C7_Witness ==
    /\ run_no = 2
    /\ \E i \in 1..Len(download_log) :
           /\ download_log[i].existed
           /\ download_log[i].outcome = "skipped"
           /\ download_log[i].before = 1
           /\ WrittenIn(files, download_log[i].path) = 1

\* C8: the first request of a slice has offset 0, and every other request
\* has the offset of the request before it plus the number of entries that
\* request returned, all of which were appended.
C8_OffsetAdvance ==
    \A i \in 1..Len(catalog_log) :
        IF i > 1 /\ catalog_log[i - 1].slice = catalog_log[i].slice
        THEN /\ catalog_log[i].start
                    = catalog_log[i - 1].start + catalog_log[i - 1].returned
             /\ catalog_log[i - 1].appended = catalog_log[i - 1].returned
             /\ catalog_log[i].had = catalog_log[i - 1].had + catalog_log[i - 1].returned
        ELSE catalog_log[i].start = 0

\* C8 witness: the first request of a second slice, then a second request
\* within that slice.
C8_Witness ==
    \E i \in 3..Len(catalog_log) :
        /\ catalog_log[i - 2].slice # catalog_log[i - 1].slice
        /\ catalog_log[i - 1].slice = catalog_log[i].slice
        /\ catalog_log[i].start > 0

\* C9: after a failure other than 429 the enricher is at the next record,
\* still running, and the failed record's citation count is 0; the enricher
\* returns only after the last record.
C9_FailureSkipsRecord ==
    /\ cite_log.status \in {"http_error", "exception"} =>
           /\ pc = "enrich_loop" \/ PastEnrich
           /\ paper_idx = cite_log.idx + 1
           /\ papers[cite_log.idx].citations = 0
    /\ PastEnrich => paper_idx = Len(papers) + 1

\* C9 witness: a record is enriched after an earlier record was abandoned.
C9_Witness ==
    /\ cite_log.status = "ok"
    /\ cite_log.answer > 0
    /\ Len(papers_with_citations) < cite_log.idx
    /\ \E i \in 1..(cite_log.idx - 1) : papers[i].citations = 0

\* C10: at every call of download_paper_pdf the metadata file exists and
\* holds the ranked top-K list.
C10_MetadataBeforeDownloads ==
    \A i \in 1..Len(download_log) :
        /\ download_log[i].metadata = [exists |-> TRUE, content |-> top_papers]
        /\ metadata = download_log[i].metadata
        /\ Len(top_papers) = Min(max_papers, Len(papers_with_citations))

\* C10 witness: a download has failed and another has succeeded, the
\* metadata file holding both records.
C10_Witness ==
    /\ \E i \in 1..Len(download_log) : download_log[i].outcome = "failed"
    /\ \E i \in 1..Len(download_log) : download_log[i].outcome = "downloaded"
    /\ metadata.exists
    /\ Len(metadata.content) = 2

\* C11: download_paper_pdf is called once for each record of top_papers, in
\* ranked order, whatever the earlier calls returned; when run() returns,
\* every ranked record has had its call, and the count of successes plus the
\* number of failed calls is the number of ranked records.
C11_FailureKeepsBatchGoing ==
    /\ PastRank => Len(download_log) <= Len(top_papers)
    /\ pc = "download_loop" => Len(download_log) = dl_idx - 1
    /\ \A i \in 1..Len(download_log) :
           /\ i <= Len(top_papers)
           /\ download_log[i].arxiv_id = top_papers[i].arxiv_id
           /\ download_log[i].path = FilePath(top_papers[i].arxiv_id, top_papers[i].title)
    /\ pc = "done" =>
           /\ Len(download_log) = Len(top_papers)
           /\ successful_downloads
                  + Cardinality({i \in 1..Len(download_log) :
                                    download_log[i].outcome = "failed"})
                  = Len(top_papers)

\* C11 witness: run() has returned with two ranked records, the download of
\* the first having failed and the second having been written.
C11_Witness ==
    /\ pc = "done"
    /\ Len(top_papers) = 2
    /\ Len(download_log) = 2
    /\ download_log[1].outcome = "failed"
    /\ download_log[2].outcome = "downloaded"
    /\ successful_downloads = 1

\* C12: the ranked list is not longer than max_papers and not longer than
\* the enriched list, and has the smaller of the two lengths.
C12_RankedLength ==
    PastRank =>
        /\ Len(top_papers) <= max_papers
        /\ Len(top_papers) <= Len(papers_with_citations)
        /\ \/ Len(top_papers) = max_papers
           \/ Len(top_papers) = Len(papers_with_citations)

\* C12 witness: an enriched list longer than max_papers was cut to
\* max_papers records.
C12_Witness ==
    /\ PastRank
    /\ max_papers = 1
    /\ Len(papers_with_citations) = 3
    /\ Len(top_papers) = 1

\* C13: every catalog request that is followed by another catalog request
\* was followed by a sleep of request_delay, whatever its outcome.
C13_DelayBetweenRequests ==
    \A i \in 1..(Len(catalog_log) - 1) : catalog_log[i].slept = RequestDelayMs

\* C15: after a page with more than zero and fewer than batch_size paper
\* entries the next request, if any, is the first of a later slice (offset
\* 0); after a page with batch_size paper entries the fetch is in the page
\* loop of the same slice, and the next request is for that slice.
C15_ShortPageEndsSlice ==
    \A i \in 1..Len(catalog_log) :
        LET e == catalog_log[i]
        IN  /\ (e.status = "ok" /\ 0 < e.paper_entries /\ e.paper_entries < BatchSize) =>
                   IF i < Len(catalog_log)
                   THEN /\ catalog_log[i + 1].slice > e.slice
                        /\ catalog_log[i + 1].start = 0
                   ELSE pc = "page_loop" => (current_start > e.slice /\ start_index = 0)
            /\ (e.status = "ok" /\ e.paper_entries = BatchSize) =>
                   IF i < Len(catalog_log)
                   THEN /\ catalog_log[i + 1].slice = e.slice
                        /\ catalog_log[i + 1].start > e.start
                   ELSE /\ pc = "page_loop"
                        /\ current_start = e.slice
                        /\ ~is_lastbatchinquery

\* C15 witness: a short page ended the first slice, the second slice was
\* started at offset 0 with a full page, and its next page was requested.
C15_Witness ==
    \E i \in 1..(Len(catalog_log) - 2) :
        /\ catalog_log[i].status = "ok"
        /\ catalog_log[i].paper_entries \in 1..(BatchSize - 1)
        /\ catalog_log[i + 1].slice > catalog_log[i].slice
        /\ catalog_log[i + 1].start = 0
        /\ catalog_log[i + 1].paper_entries = BatchSize
        /\ catalog_log[i + 2].slice = catalog_log[i + 1].slice

\* C16: a request that fails (connection, HTTP status, XML parse) leaves the
\* list of records as it was and ends the slice; the request that follows
\* it is the first page of a later slice, made with the same records; and
\* from the end of the failed slice the fetch goes to the next slice or
\* returns to run(), which starts the enrichment.
C16_FailureSkipsSlice ==
    [][/\ (Len(catalog_log') > Len(catalog_log) /\ Last(catalog_log').status = "error") =>
              /\ papers' = papers
              /\ pc' = "slice_loop"
              /\ current_start' > current_start
       /\ (Len(catalog_log') > Len(catalog_log) /\ catalog_log # <<>>
               /\ Last(catalog_log).status = "error") =>
              /\ Last(catalog_log').slice > Last(catalog_log).slice
              /\ Last(catalog_log').start = 0
              /\ Last(catalog_log').had = Last(catalog_log).had
       /\ (catalog_log' = catalog_log /\ catalog_log # <<>> /\ pc = "slice_loop"
               /\ Last(catalog_log).status = "error") =>
              /\ pc' \in {"page_loop", "enrich_loop"}
              /\ papers' = papers]_vars

\* C16 witness: the request for the first slice failed after nothing had
\* been fetched, the second slice delivered records, and the enrichment has
\* started with them.
C16_Witness ==
    /\ Len(catalog_log) >= 2
    /\ catalog_log[1].status = "error"
    /\ catalog_log[2].status = "ok"
    /\ catalog_log[2].slice > catalog_log[1].slice
    /\ catalog_log[2].appended > 0
    /\ pc = "enrich_loop"
    /\ cite_log # NoCite

\* C18: every record of the catalog was built from a paper entry, no page
\* appended more records than it had paper entries, and at the end of a
\* slice the offset has advanced by the paper entries of its last page.
C18_ErrorEntriesDropped ==
    /\ \A i \in 1..Len(papers) :
           \E k \in 1..Len(Corpus) :
               /\ papers[i].arxiv_id = PaperRecord(Corpus[k]).arxiv_id
               /\ papers[i].title = PaperRecord(Corpus[k]).title
               /\ papers[i].authors = PaperRecord(Corpus[k]).authors
               /\ papers[i].published = PaperRecord(Corpus[k]).published
    /\ \A i \in 1..Len(catalog_log) :
           catalog_log[i].appended <= catalog_log[i].paper_entries
    /\ (pc = "slice_loop" /\ catalog_log # <<>>
           /\ Last(catalog_log).outcome = "slice_done") =>
           start_index = Last(catalog_log).start + Last(catalog_log).paper_entries

\* C14: after a successful answer the record has the citation count of the
\* first candidate whose ArXiv id is the record's id without its version
\* suffix; without such a candidate, that of the first candidate; and 0
\* when there is no candidate.
C14_BestMatchByStrippedId ==
    cite_log.status = "ok" =>
        LET paper == papers[cite_log.idx]
            data == cite_log.data
            hits == {i \in 1..Len(data) : data[i].ArXiv = VersionFree(paper.arxiv_id)}
        IN  paper.citations =
                IF hits # {}
                    THEN data[CHOOSE i \in hits : \A j \in hits : i <= j].citationCount
                ELSE IF data # <<>> THEN data[1].citationCount
                ELSE 0

\* The fields of a record that the fetcher sets and no later step assigns.
CatalogFields(r) ==
    [arxiv_id |-> r.arxiv_id, title |-> r.title, authors |-> r.authors,
     published |-> r.published]

\* C17: from the start of the enrichment on, no step changes the id, title,
\* authors or published date of a record, and the record the enricher
\* appends to its output is the input record with these fields; once the
\* enricher has returned no step changes any field of any record, and the
\* ranked list consists of records of the enricher's output.
C17_OnlyCitationFields ==
    [][/\ PastFetch =>
              /\ Len(papers') = Len(papers)
              /\ \A i \in 1..Len(papers) :
                     CatalogFields(papers'[i]) = CatalogFields(papers[i])
       /\ (pc = "enrich_loop" /\ papers_with_citations' # papers_with_citations) =>
              /\ SubSeq(papers_with_citations', 1, Len(papers_with_citations))
                     = papers_with_citations
              /\ CatalogFields(Last(papers_with_citations'))
                     = CatalogFields(papers[paper_idx])
       /\ PastEnrich =>
              /\ papers' = papers
              /\ papers_with_citations' = papers_with_citations
       /\ pc = "rank" =>
              \A i \in 1..Len(top_papers') :
                  \E j \in 1..Len(papers_with_citations) :
                      top_papers'[i] = papers_with_citations[j]
       /\ pc \in {"save_metadata", "download_loop"} => top_papers' = top_papers]_vars

\* C17 witness: run() has returned after the enricher assigned a positive
\* citation count to a record that was then ranked first and downloaded.
C17_Witness ==
    /\ pc = "done"
    /\ top_papers # <<>>
    /\ top_papers[1].citations > 0
    /\ top_papers[1].semantic_scholar_id # NoField
    /\ download_log[1].outcome = "downloaded"

\* C19: a file appears at a path only by a call for that path whose request
\* succeeded; a call whose request failed leaves the directory as it was,
\* with no file at its path; and a call that finds no file at its path
\* makes the request.
C19_FailedDownloadLeavesNoFile ==
    [][LET called == Len(download_log') = Len(download_log) + 1
           e == Last(download_log')
       IN  /\ \A f \in files' \ files :
                  /\ called
                  /\ e.path = f.name
                  /\ e.requested
                  /\ e.outcome = "downloaded"
           /\ (called /\ e.outcome = "failed") =>
                  /\ e.requested
                  /\ files' = files
                  /\ ~ \E f \in files' : f.name = e.path
           /\ (called /\ ~ \E f \in files : f.name = e.path) => e.requested]_vars

\* C19 witness: in the second run the document of the first ranked record
\* is requested and written, the first run having left no file at all (its
\* request for this record failed).
C19_Witness ==
    /\ run_no = 2
    /\ download_log # <<>>
    /\ download_log[1].requested
    /\ download_log[1].before = 0
    /\ download_log[1].outcome = "downloaded"
    /\ files = {[name |-> download_log[1].path, written_in |-> 2]}

====
